---- MODULE Spec2Model ----
(***************************************************************************)
(* A model of bot.py of twitch-stenographer: the message handler           *)
(* Client.event_message with its SQLAlchemy session, the row equality of   *)
(* ComparableRow, the periodic routines refresh_channels and log_counter.  *)
(***************************************************************************)
EXTENDS Integers, Sequences, FiniteSets, TLC

\* ------------------------------------------------------------------ bounds
\* number of message events delivered in one behaviour
MaxMsgs == 2
\* number of refresh_channels runs in one behaviour
MaxRuns == 2

\* --------------------------------------------------------- Python values
\* Optional[T]: None is the empty tuple, a value v is <<v>>
None == <<>>
Some(v) == <<v>>
IsNone(o) == o = <<>>

RECURSIVE DigitsToInt(_, _)
\* int(s) and int(s, 16): the value of a digit string in the given base
DigitsToInt(ds, base) ==
    IF ds = <<>> THEN 0
    ELSE DigitsToInt(SubSeq(ds, 1, Len(ds) - 1), base) * base + ds[Len(ds)]

RECURSIVE BadgesJoin(_)
\* ",".join(f"{k}/{v}" for k, v in author.badges.items())
BadgesJoin(items) ==
    IF items = <<>> THEN <<>>
    ELSE IF Len(items) = 1 THEN <<items[1][1], "/", items[1][2]>>
    ELSE <<items[1][1], "/", items[1][2], ",">> \o BadgesJoin(Tail(items))

\* ------------------------------------------------------- transport inputs
ChannelNames == {"chan1", "chan2"}

\* the numeric id the transport resolves a channel name to
ChannelUserId(name) == IF name = "chan1" THEN 101 ELSE 102

\* twitchio.Chatter: the author with the extended profile
FullAuthor(name, badges, mod) ==
    [kind |-> "Chatter", name |-> name, id |-> Some(<<4, 2>>),
     color |-> [hash |-> TRUE, hex |-> <<1, 10>>],
     badges |-> badges, display_name |-> Some("Name"),
     is_mod |-> mod, is_subscriber |-> TRUE, is_turbo |-> "1",
     is_vip |-> FALSE, prediction |-> None]

\* twitchio.PartialChatter: only the name is known
PartialAuthor(name) == [kind |-> "PartialChatter", name |-> name]

\* the authors message events are drawn from
Authors ==
    {FullAuthor("alice", << <<"subscriber", "1">>, <<"vip", "1">> >>, FALSE),
     PartialAuthor("bob")}

\* ------------------------------------------------------------------- rows
\* Message.from_message
Message_from_message(m) ==
    [tbl |-> "Message", id |-> m.id, content |-> m.content,
     timestamp |-> m.timestamp, chatter_name |-> m.author.name,
     channel_name |-> m.channel]

\* FirstMessage(id=message.id)
FirstMessageRow(m) == [tbl |-> "FirstMessage", id |-> m.id]

\* Chatter.from_message
Chatter_from_message(m) ==
    LET author == m.author
        chatter_id == IF IsNone(author.id) THEN None
                      ELSE Some(DigitsToInt(author.id[1], 10))
        chatter_color == IF author.color.hex # <<>>
                         THEN Some(DigitsToInt(author.color.hex, 16))
                         ELSE None
    IN  [tbl |-> "Chatter", name |-> author.name, timestamp |-> m.timestamp,
         channel |-> Some(m.channel), badges |-> Some(BadgesJoin(author.badges)),
         id |-> chatter_id, display_name |-> author.display_name,
         color |-> chatter_color, is_mod |-> Some(author.is_mod),
         is_subscriber |-> Some(author.is_subscriber),
         is_turbo |-> Some(author.is_turbo = "1"),
         is_vip |-> Some(author.is_vip), prediction |-> author.prediction]

\* Chatter(name=..., timestamp=..., channel=...): the other columns are null
PartialChatterRow(m) ==
    [tbl |-> "Chatter", name |-> m.author.name, timestamp |-> m.timestamp,
     channel |-> Some(m.channel), badges |-> None, id |-> None,
     display_name |-> None, color |-> None, is_mod |-> None,
     is_subscriber |-> None, is_turbo |-> None, is_vip |-> None,
     prediction |-> None]

\* the chatter row event_message builds, by the author's type
ChatterRow(m) ==
    IF m.author.kind = "Chatter" THEN Chatter_from_message(m)
    ELSE PartialChatterRow(m)

\* Channel(name=channel_user.name, timestamp=message.timestamp, id=channel_user.id)
ChannelRow(m, channel_user) ==
    [tbl |-> "Channel", name |-> channel_user.name,
     timestamp |-> m.timestamp, id |-> channel_user.id]

\* Channel._values
Channel_values(r) == <<r.name, r.id>>

\* Chatter._values without the channel column
Chatter_values_NoChannel(r) ==
    <<r.name, r.badges, r.id, r.display_name, r.color, r.is_mod,
      r.is_subscriber, r.is_turbo, r.is_vip, r.prediction>>

\* Chatter._values
Chatter_values(r) ==
    <<r.name, r.channel, r.badges, r.id, r.display_name, r.color, r.is_mod,
      r.is_subscriber, r.is_turbo, r.is_vip, r.prediction>>

\* _values of a mapped row, by its class
Values(r) == IF r.tbl = "Channel" THEN Channel_values(r) ELSE Chatter_values(r)

\* --------------------------------------------------------- row comparison
\* A Python operand: None, or an object with an identity and a row
NoneObj == [oid |-> "none", type |-> "NoneType"]
Obj(oid, r) == [oid |-> oid, type |-> r.tbl, row |-> r]

\* ComparableRow.__eq__: True, False, or None when the values differ (the
\* inner if has no else and the method falls off its end)
ComparableRow_eq(self, other) ==
    IF self.oid = other.oid THEN "True"
    ELSE IF other.type = self.type
         THEN IF Values(self.row) = Values(other.row) THEN "True" ELSE "None"
         ELSE "False"

\* bool(x) of a result of __eq__
Truthy(x) == x = "True"

\* left != right: object.__ne__ inverts the truth of __eq__; None on the left
\* has no answer and Python asks the right operand
PyNe(left, right) ==
    IF left.type = "NoneType"
    THEN ~Truthy(ComparableRow_eq(right, left))
    ELSE ~Truthy(ComparableRow_eq(left, right))

\* ------------------------------------------------------------------ state
VARIABLES
    db,                   \* the rows committed to archive.db
    msg,                  \* msg[i]: the message event handler i was called with
    pc,                   \* pc[i]: where handler i stands in event_message
    last_chatter_record,  \* per handler: the result of last_chatter_query
    last_channel_record,  \* per handler: the result of last_channel_query
    session,              \* per handler: the rows pending in its session
    counter,              \* self.counter
    emitted,              \* what log_counter has logged so far, summed
    clock,                \* the timestamp of the latest message event
    config,               \* what load_config finds in config.toml
    connected,            \* self.connected_channels, by name
    rpc,                  \* where the refresh_channels run stands
    rlocal,               \* the locals of the refresh_channels run
    calls,                \* the part/join calls of the current run
    runs,                 \* refresh_channels runs started
    cmp                   \* the operands and result of one row comparison

vars == <<db, msg, pc, last_chatter_record, last_channel_record, session,
          counter, emitted, clock, config, connected, rpc, rlocal, calls,
          runs, cmp>>

ingestVars == <<db, msg, pc, last_chatter_record, last_channel_record,
                session, counter, emitted, clock>>
refreshVars == <<config, connected, rpc, rlocal, calls, runs>>

Handlers == 1..MaxMsgs
NoMsg == [id |-> 0]
Zero == [messages |-> 0, channels |-> 0, chatters |-> 0]

\* ------------------------------------------------------------ the store
\* a primary key of a row: Message.id, FirstMessage.id, (name, timestamp)
Key(r) ==
    IF r.tbl \in {"Message", "FirstMessage"} THEN <<r.tbl, r.id>>
    ELSE <<r.tbl, r.name, r.timestamp>>

\* select(T).where(T.name == name).order_by(desc(T.timestamp)).limit(1)
Latest(tbl, name) ==
    LET rows == {r \in db : r.tbl = tbl /\ r.name = name}
    IN  IF rows = {} THEN NoneObj
        ELSE Obj("db", CHOOSE r \in rows :
                           \A q \in rows : q.timestamp <= r.timestamp)

\* an INSERT of the pending rows would repeat a primary key
Conflicts(rows) ==
    \/ \E r \in rows : \E q \in db : Key(q) = Key(r)
    \/ \E r, q \in rows : r # q /\ Key(r) = Key(q)

\* ------------------------------------------------------ event_message
\* channel_user = await message.channel.user()
channel_user(i) ==
    [name |-> msg[i].channel, id |-> ChannelUserId(msg[i].channel)]

\* the transport calls event_message with a message event; the handler runs
\* to its first await (line 257)
Deliver(i) ==
    /\ pc[i] = "idle"
    /\ \A j \in Handlers : j < i => pc[j] # "idle"
    /\ \E a \in Authors, ch \in ChannelNames, first \in BOOLEAN :
         msg' = [msg EXCEPT ![i] =
                [id |-> i, content |-> "text", timestamp |-> clock + 1,
                 author |-> a, channel |-> ch, first |-> first]]
    /\ clock' = clock + 1
    /\ pc' = [pc EXCEPT ![i] = "user"]
    /\ UNCHANGED <<db, last_chatter_record, last_channel_record, session,
                   counter, emitted, refreshVars, cmp>>

\* lines 257-293: channel.user() returns, the rows and queries are built, a
\* new session is made and its transaction begun
ResolveUser(i) ==
    /\ pc[i] = "user"
    /\ session' = [session EXCEPT ![i] = {}]
    /\ pc' = [pc EXCEPT ![i] = "q1"]
    /\ UNCHANGED <<db, msg, last_chatter_record, last_channel_record, counter,
                   emitted, clock, refreshVars, cmp>>

\* except sqlalchemy.exc.OperationalError, that raises the increment of the
\* message counter before the block
OnOperationalError_Counted(i) ==
    /\ pc' = [pc EXCEPT ![i] = "fetch"]
    /\ counter' = [counter EXCEPT !.messages = @ + 1]
    /\ UNCHANGED <<db, msg, last_chatter_record, last_channel_record, session,
                   emitted, clock, refreshVars, cmp>>

\* a statement of the transaction block raises OperationalError: the block
\* rolls back and closes the session, line 313 logs the error and line 314
\* awaits fetch_streams
OnOperationalError(i) ==
    /\ pc' = [pc EXCEPT ![i] = "fetch"]
    /\ UNCHANGED <<db, msg, last_chatter_record, last_channel_record, session,
                   counter, emitted, clock, refreshVars, cmp>>

\* line 294: last_chatter_record = await session.scalar(last_chatter_query)
QueryChatter(i) ==
    /\ pc[i] = "q1"
    /\ \/ /\ last_chatter_record' = [last_chatter_record EXCEPT ![i] =
                                        Latest("Chatter", msg[i].author.name)]
          /\ pc' = [pc EXCEPT ![i] = "q2"]
          /\ UNCHANGED <<db, msg, last_channel_record, session, counter,
                         emitted, clock, refreshVars, cmp>>
       \/ OnOperationalError(i)

\* line 295: last_channel_record = await session.scalar(last_channel_query)
QueryChannel(i) ==
    /\ pc[i] = "q2"
    /\ \/ /\ last_channel_record' = [last_channel_record EXCEPT ![i] =
                                        Latest("Channel", msg[i].channel)]
          /\ pc' = [pc EXCEPT ![i] = "exit"]
          /\ UNCHANGED <<db, msg, last_chatter_record, session, counter,
                         emitted, clock, refreshVars, cmp>>
       \/ OnOperationalError(i)

\* the rows lines 297-309 hand to session.add, given the two lookups
Added(i) ==
    LET m == msg[i]
        channel == ChannelRow(m, channel_user(i))
        chatter == ChatterRow(m)
    IN  {Message_from_message(m)}
        \cup (IF m.first THEN {FirstMessageRow(m)} ELSE {})
        \cup (IF PyNe(last_channel_record[i], Obj("new", channel))
              THEN {channel} ELSE {})
        \cup (IF PyNe(last_chatter_record[i], Obj("new", chatter))
              THEN {chatter} ELSE {})

\* the end of the block with the session.add calls inside it: the commit
\* flushes the rows of lines 297-309
SessionExit_AfterAdds(i) ==
    /\ pc[i] = "exit"
    /\ \/ /\ db' = IF Conflicts(Added(i)) THEN db ELSE db \cup Added(i)
          /\ pc' = [pc EXCEPT ![i] = IF Conflicts(Added(i))
                                     THEN "raised_IntegrityError" ELSE "add"]
          /\ session' = [session EXCEPT ![i] = {}]
          /\ UNCHANGED <<msg, last_chatter_record, last_channel_record,
                         counter, emitted, clock, refreshVars, cmp>>
       \/ OnOperationalError(i)

\* the end of the block with only session.add(message_row) inside it
SessionExit_MessageOnly(i) ==
    /\ pc[i] = "exit"
    /\ \/ /\ db' = db \cup {Message_from_message(msg[i])}
          /\ pc' = [pc EXCEPT ![i] = "add"]
          /\ session' = [session EXCEPT ![i] = {}]
          /\ UNCHANGED <<msg, last_chatter_record, last_channel_record,
                         counter, emitted, clock, refreshVars, cmp>>
       \/ OnOperationalError(i)

\* the end of the block with only session.add(FirstMessage(...)) inside it
SessionExit_FirstMessageOnly(i) ==
    /\ pc[i] = "exit"
    /\ \/ /\ db' = db \cup (IF msg[i].first THEN {FirstMessageRow(msg[i])}
                            ELSE {})
          /\ pc' = [pc EXCEPT ![i] = "add"]
          /\ session' = [session EXCEPT ![i] = {}]
          /\ UNCHANGED <<msg, last_chatter_record, last_channel_record,
                         counter, emitted, clock, refreshVars, cmp>>
       \/ OnOperationalError(i)

\* lines 293-295, the end of "async with self.async_session.begin() as
\* session": the transaction commits the rows pending in the session, which
\* are those added inside the block (none: the block holds the two lookups
\* only), and the session is closed. A repeated primary key raises
\* IntegrityError, which line 310 does not catch.
SessionExit(i) ==
    /\ pc[i] = "exit"
    /\ \/ /\ db' = IF Conflicts(session[i]) THEN db ELSE db \cup session[i]
          /\ pc' = [pc EXCEPT ![i] = IF Conflicts(session[i])
                                     THEN "raised_IntegrityError" ELSE "add"]
          /\ session' = [session EXCEPT ![i] = {}]
          /\ UNCHANGED <<msg, last_chatter_record, last_channel_record,
                         counter, emitted, clock, refreshVars, cmp>>
       \/ OnOperationalError(i)

\* lines 297-309 without line 298, the increment of the message counter
AddRows_NoMessageCount(i) ==
    /\ pc[i] = "add"
    /\ session' = [session EXCEPT ![i] = @ \cup Added(i)]
    /\ counter' =
         [messages |-> counter.messages,
          channels |-> counter.channels +
              (IF \E r \in Added(i) : r.tbl = "Channel" THEN 1 ELSE 0),
          chatters |-> counter.chatters +
              (IF \E r \in Added(i) : r.tbl = "Chatter" THEN 1 ELSE 0)]
    /\ pc' = [pc EXCEPT ![i] = "done"]
    /\ UNCHANGED <<db, msg, last_chatter_record, last_channel_record, emitted,
                   clock, refreshVars, cmp>>

\* lines 297-309, after the block: the rows are added to the closed session,
\* the counters incremented, and the handler returns. Nothing flushes or
\* commits the session afterwards.
AddRows(i) ==
    /\ pc[i] = "add"
    /\ session' = [session EXCEPT ![i] = @ \cup Added(i)]
    /\ counter' =
         [messages |-> counter.messages + 1,
          channels |-> counter.channels +
              (IF \E r \in Added(i) : r.tbl = "Channel" THEN 1 ELSE 0),
          chatters |-> counter.chatters +
              (IF \E r \in Added(i) : r.tbl = "Chatter" THEN 1 ELSE 0)]
    /\ pc' = [pc EXCEPT ![i] = "done"]
    /\ UNCHANGED <<db, msg, last_chatter_record, last_channel_record, emitted,
                   clock, refreshVars, cmp>>

\* what fetch_streams may return: the list of the channel's live streams,
\* empty when no stream is in progress
StreamResults == {<<>>, <<[started_at |-> 0]>>}

\* lines 314-326: streams[0] raises IndexError on an empty list; otherwise
\* the diagnostic is logged and the handler returns
FetchStreams(i) ==
    /\ pc[i] = "fetch"
    /\ \E streams \in StreamResults :
         pc' = [pc EXCEPT ![i] =
                  IF streams = <<>> THEN "raised_IndexError"
                  ELSE "recovered"]
    /\ UNCHANGED <<db, msg, last_chatter_record, last_channel_record, session,
                   counter, emitted, clock, refreshVars, cmp>>

\* LogCounter.reset without line 212
reset_KeepsChatters ==
    [messages |-> 0, channels |-> 0, chatters |-> counter.chatters]

\* LogCounter.reset
reset == Zero

\* log_counter: the three counters are logged and reset; the routine has no
\* await
log_counter ==
    /\ emitted' = [messages |-> emitted.messages + counter.messages,
                   channels |-> emitted.channels + counter.channels,
                   chatters |-> emitted.chatters + counter.chatters]
    /\ counter' = reset
    /\ UNCHANGED <<db, msg, pc, last_chatter_record, last_channel_record,
                   session, clock, refreshVars, cmp>>

\* ------------------------------------------------------- initial states
\* Client.__init__ and connect: empty tables, LogCounter()
InitIngest ==
    /\ db = {}
    /\ msg = [i \in Handlers |-> NoMsg]
    /\ pc = [i \in Handlers |-> "idle"]
    /\ last_chatter_record = [i \in Handlers |-> NoneObj]
    /\ last_channel_record = [i \in Handlers |-> NoneObj]
    /\ session = [i \in Handlers |-> {}]
    /\ counter = Zero
    /\ emitted = Zero
    /\ clock = 0

\* the reconciler at rest, for the specifications that do not run it
RefreshAtRest ==
    /\ config = [kind |-> "ok", channels |-> {}]
    /\ connected = {}
    /\ rpc = "idle"
    /\ rlocal = [load |-> "none"]
    /\ calls = <<>>
    /\ runs = 0

\* no comparison under way
CmpAtRest == cmp = [state |-> "none"]

Init == InitIngest /\ RefreshAtRest /\ CmpAtRest

Next ==
    \/ \E i \in Handlers : Deliver(i)
    \/ \E i \in Handlers : ResolveUser(i)
    \/ \E i \in Handlers : QueryChatter(i)
    \/ \E i \in Handlers : QueryChannel(i)
    \/ \E i \in Handlers : SessionExit(i)
    \/ \E i \in Handlers : AddRows(i)
    \/ \E i \in Handlers : FetchStreams(i)
    \/ log_counter

\* the message handlers and log_counter
Spec == Init /\ [][Next]_vars

\* ------------------------------------------------------ refresh_channels
\* the channel names a configuration may list
ConfigNames == {"foo", "Foo", "bar"}

\* the transport's casing rule: it joins, parts and reports channels by
\* their lower-case name (the todo of line 329)
Lower(name) == IF name = "Foo" THEN "foo" ELSE name
LowerSet(names) == {Lower(n) : n \in names}

\* what load_config can find in config.toml: a table with the channels key,
\* a table without it, a file that is not valid TOML, a file that is not
\* valid UTF-8
Configs ==
    {[kind |-> "ok", channels |-> c] : c \in SUBSET ConfigNames}
    \cup {[kind |-> "nokey"], [kind |-> "syntax"], [kind |-> "encoding"]}

\* line 349 joining every target channel
channels_to_join_All(current_channels, target_channels) == target_channels

\* line 348: channels_to_leave = current_channels - target_channels
channels_to_leave(current_channels, target_channels) ==
    current_channels \ target_channels

\* line 349: channels_to_join = target_channels - current_channels
channels_to_join(current_channels, target_channels) ==
    target_channels \ current_channels

\* the operator edits config.toml
EditConfig ==
    /\ \E c \in Configs : c # config /\ config' = c
    /\ UNCHANGED <<ingestVars, connected, rpc, rlocal, calls, runs, cmp>>

\* the routine starting a run whatever the previous one is doing
RoutineMayStart_Always == TRUE

\* @routine(minutes=10, wait_first=True), started once by connect: the
\* routine's loop awaits one run to its end before it sleeps and starts the
\* next, and ends when a run raises
RoutineMayStart == rpc = "idle"

\* the routine starts a run, which goes on to its first await or its end
refresh_channels ==
    /\ RoutineMayStart
    /\ runs < MaxRuns
    /\ runs' = runs + 1
    /\ \/ \* tomllib.TOMLDecodeError: logged, the run returns
          /\ config.kind = "syntax"
          /\ rlocal' = [load |-> "TOMLDecodeError", before |-> connected]
          /\ calls' = <<>>
          /\ rpc' = "idle"
       \/ \* tomllib.load decodes the bytes before it parses them:
          \* UnicodeDecodeError is no TOMLDecodeError and leaves the routine
          /\ config.kind = "encoding"
          /\ rlocal' = [load |-> "UnicodeDecodeError", before |-> connected]
          /\ calls' = <<>>
          /\ rpc' = "raised"
       \/ \* KeyError: logged, the run returns
          /\ config.kind = "nokey"
          /\ rlocal' = [load |-> "KeyError", before |-> connected]
          /\ calls' = <<>>
          /\ rpc' = "idle"
       \/ /\ config.kind = "ok"
          /\ LET target_channels == config.channels
                 current_channels == connected
                 leave == channels_to_leave(current_channels, target_channels)
                 join == channels_to_join(current_channels, target_channels)
             IN  /\ rlocal' = [load |-> "ok", before |-> connected,
                               target_channels |-> target_channels,
                               current_channels |-> current_channels,
                               channels_to_leave |-> leave,
                               channels_to_join |-> join]
                 /\ calls' = IF leave # {}
                             THEN <<[op |-> "part_channels", names |-> leave]>>
                             ELSE IF join # {}
                             THEN <<[op |-> "join_channels", names |-> join]>>
                             ELSE <<>>
                 /\ rpc' = IF leave # {} THEN "parting"
                           ELSE IF join # {} THEN "joining" ELSE "idle"
    /\ UNCHANGED <<ingestVars, config, connected, cmp>>

\* line 353: await self.part_channels(...) returns, the transport has left
\* the channels; lines 354-356 go on to the join
PartReturns ==
    /\ rpc = "parting"
    /\ connected' = connected \ LowerSet(rlocal.channels_to_leave)
    /\ calls' = IF rlocal.channels_to_join # {}
                THEN Append(calls, [op |-> "join_channels",
                                    names |-> rlocal.channels_to_join])
                ELSE calls
    /\ rpc' = IF rlocal.channels_to_join # {} THEN "joining" ELSE "idle"
    /\ UNCHANGED <<ingestVars, config, rlocal, runs, cmp>>

\* line 356: await self.join_channels(...) returns, the transport has
\* joined the channels; the run is done
JoinReturns ==
    /\ rpc = "joining"
    /\ connected' = connected \cup LowerSet(rlocal.channels_to_join)
    /\ rpc' = "idle"
    /\ UNCHANGED <<ingestVars, config, rlocal, calls, runs, cmp>>

\* main: the configuration loads and lists the initial channels, which the
\* transport joins
InitRefresh ==
    /\ config \in {c \in Configs : c.kind = "ok"}
    /\ connected = LowerSet(config.channels)
    /\ rpc = "idle"
    /\ rlocal = [load |-> "none"]
    /\ calls = <<>>
    /\ runs = 0

NextRefresh ==
    \/ EditConfig
    \/ refresh_channels
    \/ PartReturns
    \/ JoinReturns

InitR == InitIngest /\ InitRefresh /\ CmpAtRest

\* the channel reconciler alone
SpecRefresh == InitR /\ [][NextRefresh]_vars

\* ------------------------------------------- the comparison on its own
\* message events the candidate rows are built from
SampleMessages ==
    {[id |-> 1, content |-> "text", timestamp |-> 2, author |-> a,
      channel |-> ch, first |-> FALSE] : a \in Authors, ch \in ChannelNames}

\* the Chatter rows a lookup may return: every column takes the value of a
\* full profile or that of a partial one
StoredChatterRows ==
    {[tbl |-> "Chatter", name |-> n, timestamp |-> 1, channel |-> Some(ch),
      badges |-> b, id |-> id, display_name |-> dn, color |-> col,
      is_mod |-> mod, is_subscriber |-> sub, is_turbo |-> turbo,
      is_vip |-> vip, prediction |-> pred] :
        n \in {"alice", "bob"}, ch \in ChannelNames,
        b \in {None, Some(<<"subscriber", "/", "1", ",", "vip", "/", "1">>)},
        id \in {None, Some(42)}, dn \in {None, Some("Name")},
        col \in {None, Some(26)}, mod \in {None, Some(FALSE)},
        sub \in {None, Some(TRUE)}, turbo \in {None, Some(TRUE)},
        vip \in {None, Some(FALSE)}, pred \in {None, Some("blue-1")}}

\* the Channel rows a lookup may return
StoredChannelRows ==
    {[tbl |-> "Channel", name |-> n, timestamp |-> 1, id |-> id] :
        n \in ChannelNames, id \in {101, 102}}

\* the operands of lines 302 and 306: the looked-up record, None or a row of
\* the candidate's table, and the candidate built from the message
InitCmp ==
    cmp \in
      {[state |-> "ready", last |-> l, candidate |-> Obj("new", ChatterRow(m))] :
          l \in {NoneObj} \cup {Obj("db", r) : r \in StoredChatterRows},
          m \in SampleMessages}
      \cup
      {[state |-> "ready", last |-> l,
        candidate |-> Obj("new", ChannelRow(m, [name |-> m.channel,
                                 id |-> ChannelUserId(m.channel)]))] :
          l \in {NoneObj} \cup {Obj("db", r) : r \in StoredChannelRows},
          m \in SampleMessages}

\* lines 302 and 306: if last_record != candidate: session.add(candidate)
Compare ==
    /\ cmp.state = "ready"
    /\ cmp' = [state |-> "compared", last |-> cmp.last,
               candidate |-> cmp.candidate,
               add |-> PyNe(cmp.last, cmp.candidate)]
    /\ UNCHANGED <<ingestVars, refreshVars>>

InitD == InitIngest /\ RefreshAtRest /\ InitCmp

NextDedup == Compare

\* the persist decision over every pair of operands
SpecDedup == InitD /\ [][NextDedup]_vars

\* ================================================================ claims
\* the comparable fields the specification lists for each snapshot table
ComparableFields(tbl) ==
    IF tbl = "Chatter"
    THEN {"name", "channel", "badges", "id", "display_name", "color", "is_mod",
          "is_subscriber", "is_turbo", "is_vip", "prediction"}
    ELSE {"name", "id"}

FieldEqual(r, q) == \A f \in ComparableFields(r.tbl) : r[f] = q[f]

\* r and q are rows of one key, q the next after r by timestamp
ConsecutiveSnapshots(r, q) ==
    /\ r.tbl \in {"Chatter", "Channel"}
    /\ q.tbl = r.tbl
    /\ q.name = r.name
    /\ r.timestamp < q.timestamp
    /\ ~\E x \in db : /\ x.tbl = r.tbl /\ x.name = r.name
                      /\ r.timestamp < x.timestamp
                      /\ x.timestamp < q.timestamp

Returned(i) == pc[i] = "done"
Failed(i) == pc[i] \in {"fetch", "recovered", "raised_IndexError"}

should_persist(candidate, previous) ==
    \/ previous.type = "NoneType"
    \/ \E f \in ComparableFields(candidate.type) :
           previous.row[f] # candidate.row[f]

C3_MessageRowStored ==
    \A i \in Handlers :
        Returned(i) =>
            {r \in db : r.tbl = "Message" /\ r.id = msg[i].id}
                = {Message_from_message(msg[i])}

\* the rows of message event i that the store holds
Present(i) ==
    {r \in db : \/ r.tbl \in {"Message", "FirstMessage"} /\ r.id = msg[i].id
                \/ pc[i] \in {"add", "done"} /\ r \in Added(i)}

C5_FirstMessageRowStored ==
    \A i \in Handlers :
        Returned(i) =>
            Cardinality({r \in db : r.tbl = "FirstMessage" /\ r.id = msg[i].id})
                = (IF msg[i].first THEN 1 ELSE 0)

\* the calls one run is to issue for connected set C and desired set D
ExpectedCalls(C, D) ==
    (IF C \ D # {} THEN <<[op |-> "part_channels", names |-> C \ D]>>
     ELSE <<>>)
    \o (IF D \ C # {} THEN <<[op |-> "join_channels", names |-> D \ C]>>
        ELSE <<>>)

\* C6: a run with a valid configuration, desired set D and connected set C
\* issues at most one part_channels call, made iff C \ D is non-empty and
\* carrying exactly C \ D, and at most one join_channels call, made iff
\* D \ C is non-empty and carrying exactly D \ C; no channel of both sets is
\* in either call.
C6_MinimalCalls ==
    rlocal.load = "ok" =>
        LET D == rlocal.target_channels
            C == rlocal.current_channels
            expected == ExpectedCalls(C, D)
        IN  /\ C = rlocal.before
            /\ rpc \in {"idle", "joining"} => calls = expected
            /\ rpc = "parting" => calls = SubSeq(expected, 1, 1)
            /\ \A k \in 1..Len(calls) : calls[k].names \cap (C \cap D) = {}

\* a finished run that left one channel, joined another and kept a third
C6_Witness ==
    /\ rlocal.load = "ok"
    /\ rpc = "idle"
    /\ Len(calls) = 2
    /\ rlocal.target_channels \cap rlocal.current_channels # {}

\* C7: when the desired and the connected names differ only in letter case,
\* a run issues no part_channels and no join_channels call.
C7_CaseNormalizedComparison ==
    (/\ rlocal.load = "ok"
     /\ LowerSet(rlocal.target_channels) = LowerSet(rlocal.current_channels))
        => calls = <<>>

\* C8: a run whose configuration fails to load (malformed file, channels key
\* missing) issues no call, leaves the connected set unchanged and raises
\* nothing out of the routine.
C8_ConfigFailureIsNoOp ==
    rlocal.load \in {"TOMLDecodeError", "UnicodeDecodeError", "KeyError"} =>
        /\ calls = <<>>
        /\ connected = rlocal.before
        /\ rpc # "raised"

\* C9: when the transaction of event_message fails with OperationalError, no
\* exception leaves the handler, whatever fetch_streams returns.
C9_NoExceptionAfterStorageFailure ==
    \A i \in Handlers : pc[i] # "raised_IndexError"

\* the rows of a table that carry the key of message event i
EventRows(i) ==
    {r \in db : \/ r.tbl \in {"Message", "FirstMessage"} /\ r.id = msg[i].id
                \/ /\ r.tbl = "Chatter"
                   /\ r.name = msg[i].author.name
                   /\ r.timestamp = msg[i].timestamp
                \/ /\ r.tbl = "Channel"
                   /\ r.name = msg[i].channel
                   /\ r.timestamp = msg[i].timestamp}

\* C10: a message event whose transaction fails changes nothing: every
\* increment of the three counters belongs to an event that did not fail,
\* and the store holds no row of a failed event.
C10_FailedEventChangesNothing ==
    /\ emitted.messages + counter.messages
         = Cardinality({i \in Handlers : Returned(i)})
    /\ emitted.channels + counter.channels
         = Cardinality({i \in Handlers :
              Returned(i) /\ \E r \in session[i] : r.tbl = "Channel"})
    /\ emitted.chatters + counter.chatters
         = Cardinality({i \in Handlers :
              Returned(i) /\ \E r \in session[i] : r.tbl = "Chatter"})
    /\ \A i \in Handlers : Failed(i) => EventRows(i) = {}

\* one event failed and was recovered while another was counted
C10_Witness ==
    \E i, j \in Handlers :
        /\ pc[i] = "recovered"
        /\ Returned(j)
        /\ counter.messages = 1

\* C11: the counters track committed writes: the increments of
\* counter.messages, counter.channels and counter.chatters equal the numbers
\* of Message, Channel and Chatter rows committed to the store.
C11_CountersTrackCommittedRows ==
    /\ emitted.messages + counter.messages
         = Cardinality({r \in db : r.tbl = "Message"})
    /\ emitted.channels + counter.channels
         = Cardinality({r \in db : r.tbl = "Channel"})
    /\ emitted.chatters + counter.chatters
         = Cardinality({r \in db : r.tbl = "Chatter"})

CounterNames == {"messages", "channels", "chatters"}

\* the handlers that return in this step having added a row of the table
ReturningWith(tbl) ==
    {i \in Handlers : /\ pc[i] # "done"
                      /\ pc'[i] = "done"
                      /\ \E r \in session'[i] : r.tbl = tbl}

\* C12: under every interleaving of handlers and log_counter runs, a
\* log_counter run emits exactly the increments made since the previous
\* emission and leaves the three counters at zero, and no increment is lost
\* or reported twice: emitted plus current value grows by exactly the
\* increments of the step.
C12_EmissionsConserveIncrements ==
    [][/\ (emitted' # emitted) =>
              /\ counter' = Zero
              /\ \A f \in CounterNames : emitted'[f] = emitted[f] + counter[f]
       /\ emitted'.messages + counter'.messages
            = emitted.messages + counter.messages
              + Cardinality(ReturningWith("Message"))
       /\ emitted'.channels + counter'.channels
            = emitted.channels + counter.channels
              + Cardinality(ReturningWith("Channel"))
       /\ emitted'.chatters + counter'.chatters
            = emitted.chatters + counter.chatters
              + Cardinality(ReturningWith("Chatter"))]_vars

\* an emission lies between the increments of two handlers
C12_Witness ==
    /\ emitted.messages = 1
    /\ emitted.chatters = 1
    /\ counter.messages = 1
    /\ counter.channels = 1

AgreeExceptChannel(r, q) ==
    \A f \in ComparableFields("Chatter") \ {"channel"} : r[f] = q[f]

Preceding(c) ==
    {r \in db : /\ r.tbl = c.tbl /\ r.name = c.name
                /\ r.timestamp < c.timestamp}

\* the candidate is not field-equal to the snapshot right before it
DiffersFromPreceding(c) ==
    \A r \in Preceding(c) :
        (\A q \in Preceding(c) : q.timestamp <= r.timestamp)
            => ~FieldEqual(r, c)

\* the snapshot candidates of message event i
Candidates(i) == {ChatterRow(msg[i]), ChannelRow(msg[i], channel_user(i))}

\* C16: when handlers for messages of one chatter or one channel interleave,
\* the store holds no two consecutive field-equal snapshot rows of a key,
\* and a snapshot is persisted iff it is not field-equal to the one right
\* before it.
C16_RacingHandlersPersistIffChanged ==
    /\ \A r, q \in db : ConsecutiveSnapshots(r, q) => ~FieldEqual(r, q)
    /\ \A i, j \in Handlers :
         (/\ i # j
          /\ Returned(i) /\ Returned(j)
          /\ \/ msg[i].author.name = msg[j].author.name
             \/ msg[i].channel = msg[j].channel)
            => \A c \in Candidates(i) : c \in db <=> DiffersFromPreceding(c)

\* C20: in every reachable state the three counters are non-negative and
\* neither counter.channels nor counter.chatters exceeds counter.messages.
C20_SnapshotCountsWithinMessages ==
    /\ \A f \in CounterNames : counter[f] >= 0
    /\ counter.channels <= counter.messages
    /\ counter.chatters <= counter.messages

\* a handler has counted its message and both snapshots after an emission
C20_Witness ==
    /\ emitted.messages >= 1
    /\ counter.messages = 1
    /\ counter.channels = 1
    /\ counter.chatters = 1
    /\ emitted.channels = 1

Converged ==
    /\ rpc = "idle"
    /\ rlocal.load = "ok"
    /\ config.kind = "ok"
    /\ config.channels = rlocal.target_channels

\* C19: reconciliation converges: after one completed run under a valid,
\* unchanged configuration the connected set is the desired set (names
\* compared as the transport reports them), and a later run issues no
\* join_channels and no part_channels call
C19_ReconciliationConverges ==
    [][Converged =>
          /\ connected = LowerSet(config.channels)
          /\ (runs' # runs => calls' = <<>>)]_vars

====
